---- MODULE Spec2Model ----
(***************************************************************************)
(* Model of scripts/dreambooth.py: the request handlers the UI toolkit     *)
(* invokes (training_wizard, performance_wizard, ui_samples, load_params,  *)
(* load_model_params, start_training, ui_classifiers).                      *)
(*                                                                         *)
(* One handler runs at a time.  pc = "idle" is the state between two       *)
(* requests; a handler leaves its result in ret and pc = "done".  The      *)
(* only state that survives a request is the module global mem_record.     *)
(* What the external routines do (from_file, os.path.exists, get_images,   *)
(* the trainers, the image generator) is an input drawn from small sets.   *)
(***************************************************************************)
EXTENDS Integers, Sequences, FiniteSets, TLC

VARIABLES
    pc,         \* position: "idle", a step of a running handler, or "done"
    fn,         \* the handler being run ("" when idle)
    arg,        \* the handler's arguments and what from_file returned for it
    loc,        \* the handler's local variables
    ret,        \* what the handler returned (or the exception it let escape)
    calls,      \* the external routines the running handler has called, in order
    mem_record  \* the module global mem_record

vars == <<pc, fn, arg, loc, ret, calls, mem_record>>

(***************************************************************************)
(* Bounds of the model.                                                    *)
(***************************************************************************)
MaxConcepts == 4     \* longest concepts_list
MaxSamples == 3      \* largest num_samples
MaxBatch == 2        \* largest batch_size
MaxMem == 2          \* distinct values of mem_record after the first
MaxHalfGiB == 52     \* largest total_memory, in units of 2^29 bytes

(***************************************************************************)
(* Python values.  A value carries its type in t; two values are compared  *)
(* by type first.  An f-string keeps its literal text and the values       *)
(* substituted into it.                                                    *)
(***************************************************************************)
IntV(n) == [t |-> "int", v |-> n]
StrV(s) == [t |-> "str", v |-> s]
FStr(text, args) == [t |-> "fstr", v |-> [text |-> text, args |-> args]]
BoolV(b) == [t |-> "bool", v |-> b]
ListV(s) == [t |-> "list", v |-> s]
NoneVal == [t |-> "none", v |-> "None"]
Dropdown(value) == [t |-> "dropdown", v |-> value]

IsStr(x) == x.t \in {"str", "fstr"}

\* None where a str is expected (model_dir, a path, a prompt)
None == "<None>"

\* what a handler hands back
Tuple(s) == [kind |-> "tuple", val |-> s]
Bare(x) == [kind |-> "bare", val |-> <<x>>]
Raise(e) == [kind |-> "raise", val |-> <<StrV(e)>>]
NoRet == [kind |-> "none", val |-> <<>>]

\* from_file(model_dir): None is <<>>, a config c is <<c>>
NoConfig == <<>>
Loaded(c) == <<c>>

\* "True" if x else "False"
TrueFalse(b) == IF b THEN StrV("True") ELSE StrV("False")

ModelDirs == {"", None, "model"}

(***************************************************************************)
(* The file system seen by os.path.exists and get_images.                  *)
(***************************************************************************)
ExistingPaths ==
    {"/data/empty", "/data/one", "/data/three", "/models/sd", "/models/vae"}

Exists(path) == path \in ExistingPaths

GetImages(dir) ==
    CASE dir = "/data/one" -> 1
      [] dir = "/data/three" -> 3
      [] OTHER -> 0

(***************************************************************************)
(* training_wizard                                                         *)
(***************************************************************************)
InstanceDirs == {"/data/missing", "/data/empty", "/data/one", "/data/three"}

\* learning_rate in units of 1e-7 (20 is the base rate .000002)
LearningRates == {0, 10, 20}

SeqsUpTo(S, n) == UNION {[1..k -> S] : k \in 0..n}

WizardConcepts ==
    SeqsUpTo([instance_data_dir : InstanceDirs], MaxConcepts)

WizardConfigs ==
    {NoConfig} \cup
    {Loaded(c) : c \in [learning_rate : LearningRates, concepts_list : WizardConcepts]}

\* class_mult of lines 72-77
ClassMult(is_person) == IF is_person THEN 10 ELSE 0

\* 100 * lr_scale of lines 72-78, times learning_rate (in units of 1e-7)
StepNumerator(is_person) == IF is_person THEN 100 * 20 ELSE 100 * 25

\* the loop of lines 80-95: one entry per concept whose directory exists
RECURSIVE CountsList(_, _)
CountsList(concepts, class_mult) ==
    IF concepts = <<>> THEN <<>>
    ELSE LET concept == Head(concepts)
             rest == CountsList(Tail(concepts), class_mult)
         IN  IF ~Exists(concept.instance_data_dir) THEN rest
             ELSE LET image_count == GetImages(concept.instance_data_dir)
                  IN  <<[concept |-> concept,
                         images |-> image_count,
                         classifiers |-> image_count * class_mult]>> \o rest

\* the loop of lines 102-109
WizardCList(counts_list) ==
    [x \in 1..3 |->
        IF x <= Len(counts_list) THEN counts_list[x].classifiers ELSE 0]

WizardStatus(step_mult, counts_list) ==
    FStr("Wizard results:<br>Num Epochs: {}<br>Max Steps: {}",
         <<step_mult, 0>> \o
         [x \in 1..(IF Len(counts_list) < 3 THEN Len(counts_list) ELSE 3) |->
             counts_list[x].classifiers])

training_wizard(model_dir, is_person, data) ==
    IF model_dir = "" \/ model_dir = None
    THEN Tuple(<<StrV("Please select a model."), IntV(1000), IntV(-1), IntV(0),
                 IntV(-1), IntV(0), IntV(-1), IntV(0)>>)
    ELSE IF data = NoConfig
    THEN Tuple(<<StrV("Unable to load config."), IntV(0), IntV(100), IntV(-1),
                 IntV(0), IntV(-1), IntV(0), IntV(-1)>>)
    ELSE LET config == data[1] IN
         IF config.learning_rate = 0 THEN Raise("ZeroDivisionError")
         ELSE LET step_mult == StepNumerator(is_person) \div config.learning_rate
                  counts_list == CountsList(config.concepts_list, ClassMult(is_person))
                  c_list == WizardCList(counts_list)
              IN  Tuple(<<IntV(0), IntV(step_mult), IntV(-1), IntV(c_list[1]),
                          IntV(-1), IntV(c_list[2]), IntV(-1), IntV(c_list[3]),
                          WizardStatus(step_mult, counts_list)>>)

training_wizard_person(model_dir, data) == training_wizard(model_dir, TRUE, data)

(***************************************************************************)
(* performance_wizard                                                      *)
(***************************************************************************)
\* math.ceil(t / 1073741824), t in units of 2^29 bytes
CeilGiB(t) == (t + 1) \div 2

\* torch.cuda.get_device_properties(0).total_memory, or -1 when the query raises
TotalMemory == {-1} \cup 0..MaxHalfGiB

\* lines 133-143: the defaults
PerfDefaults ==
    [attention |-> "flash_attention", gradient_checkpointing |-> TRUE,
     gradient_accumulation_steps |-> 1, mixed_precision |-> "fp16",
     not_cache_latents |-> TRUE, sample_batch_size |-> 1, train_batch_size |-> 1,
     train_text_encoder |-> FALSE, use_8bit_adam |-> TRUE, use_lora |-> FALSE,
     use_ema |-> FALSE]

\* lines 145-156
PerfProbe(p, bf16, has_xformers) ==
    LET p1 == IF bf16 THEN [p EXCEPT !.mixed_precision = "bf16"] ELSE p
    IN  IF has_xformers THEN [p1 EXCEPT !.attention = "xformers"] ELSE p1

\* lines 161-169, the assignments in the order of the code
PerfBig(p) ==
    LET p1 == [p EXCEPT !.sample_batch_size = 4]
        p2 == [p1 EXCEPT !.gradient_accumulation_steps = p1.train_batch_size]
        p3 == [p2 EXCEPT !.train_batch_size = 2,
                         !.train_text_encoder = TRUE,
                         !.use_ema = TRUE]
    IN  IF p3.attention # "xformers"
        THEN [p3 EXCEPT !.attention = "no", !.train_batch_size = 1]
        ELSE p3

\* lines 170-172
PerfMid(p) == [p EXCEPT !.train_text_encoder = TRUE, !.use_ema = TRUE]

\* lines 173-175
PerfLow(p) == [p EXCEPT !.use_lora = TRUE, !.use_ema = FALSE]

\* lines 157-180
PerfByMemory(p, t) ==
    IF t < 0 THEN p
    ELSE LET gb == CeilGiB(t)
             p1 == IF gb >= 24 THEN PerfBig(p) ELSE p
             p2 == IF 24 > gb /\ gb >= 16 THEN PerfMid(p1) ELSE p1
         IN  IF 16 > gb /\ gb >= 10 THEN PerfLow(p2) ELSE p2

PerfMsg(p, t) ==
    LET head == IF t < 0
                THEN "An exception occurred calculating performance values: {}"
                ELSE "Calculated training params based on {}GB of VRAM:"
    IN  FStr(head,
             <<IF t < 0 THEN -1 ELSE CeilGiB(t), p.gradient_accumulation_steps,
               p.train_batch_size, p.sample_batch_size>>)

performance_wizard(bf16, has_xformers, t) ==
    LET p == PerfByMemory(PerfProbe(PerfDefaults, bf16, has_xformers), t)
    IN  Tuple(<<StrV(p.attention), BoolV(p.gradient_checkpointing),
                IntV(p.gradient_accumulation_steps), StrV(p.mixed_precision),
                BoolV(p.not_cache_latents), IntV(p.sample_batch_size),
                IntV(p.train_batch_size), BoolV(p.train_text_encoder),
                BoolV(p.use_8bit_adam), BoolV(p.use_lora), BoolV(p.use_ema),
                PerfMsg(p, t)>>)

(***************************************************************************)
(* load_model_params                                                       *)
(***************************************************************************)
ModelConfigs ==
    {NoConfig} \cup
    {Loaded(c) : c \in [model_dir : {"/models/db/model"}, revision : {0, 100},
                        epoch : {0, 3}, v2 : BOOLEAN, has_ema : BOOLEAN,
                        src : {"sd.ckpt"}, scheduler : {"ddim"}]}

load_model_params(model_name, data) ==
    IF data = NoConfig
    THEN Tuple(<<StrV(""), StrV(""), StrV(""), StrV(""), StrV(""), StrV(""),
                 FStr("Error loading model params: '{}'.", <<model_name>>)>>)
    ELSE LET d == data[1] IN
         Tuple(<<StrV(d.model_dir), IntV(d.revision), IntV(d.epoch), TrueFalse(d.v2),
                 TrueFalse(d.has_ema), StrV(d.src), StrV(d.scheduler),
                 FStr("Selected model: '{}'.", <<model_name>>)>>)

(***************************************************************************)
(* start_training                                                          *)
(***************************************************************************)
LoraNames == {"", None, "lora"}

TrainConcepts == {<<>>, <<[instance_data_dir |-> "/data/one"]>>}

TrainConfigs ==
    {NoConfig} \cup
    {Loaded(c) : c \in
        [attention : {"xformers", "default"},
         mixed_precision : {"no", "fp16"},
         concepts_list : TrainConcepts,
         pretrained_model_name_or_path : {"/models/sd", "/models/gone"},
         pretrained_vae_name_or_path : {"", None, "/models/vae", "/models/novae"},
         resolution : {0, 512},
         revision : {0},
         epoch : {0},
         model_name : {"model"}]}

\* lines 430-432
ClearVae(config) ==
    IF config.pretrained_vae_name_or_path = ""
    THEN [config EXCEPT !.pretrained_vae_name_or_path = None]
    ELSE config

\* msg = None
NoMsg == NoneVal

\* lines 435-437
CheckXformers(config, msg) ==
    IF config.attention = "xformers" /\ config.mixed_precision = "no"
    THEN StrV("Using xformers, please set mixed precision to 'fp16' or 'bf16' to continue.")
    ELSE msg

\* lines 438-439
CheckConcepts(config, msg) ==
    IF Len(config.concepts_list) = 0
    THEN StrV("Please configure some concepts.")
    ELSE msg

\* lines 440-441
CheckModelPath(config, msg) ==
    IF ~Exists(config.pretrained_model_name_or_path)
    THEN StrV("Invalid training data directory.")
    ELSE msg

\* lines 442-444
CheckVaePath(config, msg) ==
    IF /\ config.pretrained_vae_name_or_path # ""
       /\ config.pretrained_vae_name_or_path # None
       /\ ~Exists(config.pretrained_vae_name_or_path)
    THEN StrV("Invalid Pretrained VAE Path.")
    ELSE msg

\* CheckResolution with the bound off by one (resolution < 0)
CheckResolution_Negative(config, msg) ==
    IF config.resolution < 0 THEN StrV("Invalid resolution.") ELSE msg

\* lines 445-446
CheckResolution(config, msg) ==
    IF config.resolution <= 0 THEN StrV("Invalid resolution.") ELSE msg

\* ValidateTraining with the resolution check moved to the front
ValidateTraining_ResolutionFirst(config) ==
    CheckVaePath(config,
        CheckModelPath(config,
            CheckConcepts(config,
                CheckXformers(config,
                    CheckResolution(config, NoMsg)))))

\* lines 434-446: each failing check overwrites msg
ValidateTraining(config) ==
    CheckResolution(config,
        CheckVaePath(config,
            CheckModelPath(config,
                CheckConcepts(config,
                    CheckXformers(config, NoMsg)))))

\* "if msg:"
Truthy(msg) == msg.t # "none" /\ msg.v # ""

\* lines 425-427 and 450-452
Rejection(lora_model_name, msg) ==
    Tuple(<<Dropdown(StrV(lora_model_name)), IntV(0), IntV(0), ListV(<<>>), msg>>)

\* line 457
UnloadSystemModels(c) == Append(c, "unload_system_models")

\* ReloadSystemModels left out
ReloadSystemModels_Skipped(c) == c

\* line 492
ReloadSystemModels(c) == Append(c, "reload_system_models")

\* lines 481-482
TrainingResult(interrupted, total_steps) ==
    FStr(IF interrupted THEN "Training interrupted. Total lifetime steps: {} \n"
         ELSE "Training finished. Total lifetime steps: {} \n", <<total_steps>>)

\* lines 483-485
TrainingException(e) == FStr("Exception training model: {}", <<e>>)

\* what a trainer hands back as mem_record
MemRecords == 0..MaxMem

\* result of train_dreambooth.main: the config with its new revision and
\* epoch, the memory record and the sample images
MainResults(config) ==
    [config : {[config EXCEPT !.revision = r, !.epoch = e] :
                    r \in {config.revision, config.revision + 100}, e \in {0, 1}},
     mem_record : MemRecords,
     samples : {<<>>, <<"sample">>}]

\* lines 421-452: the entry, the configuration and the checks
start_training_check ==
    /\ pc = "idle"
    /\ \E model_dir \in ModelDirs, lora_model_name \in LoraNames,
          imagic_only \in BOOLEAN, data \in TrainConfigs :
        /\ fn' = "start_training"
        /\ arg' = [model_dir |-> model_dir, lora_model_name |-> lora_model_name,
                   imagic_only |-> imagic_only, data |-> data,
                   mem_record |-> mem_record]
        /\ IF model_dir = "" \/ model_dir = None
           THEN /\ calls' = <<"get_lora_models">>
                /\ ret' = Rejection(lora_model_name,
                                    StrV("Create or select a model first."))
                /\ loc' = <<>>
                /\ pc' = "done"
           ELSE IF data = NoConfig
           THEN \* config.pretrained_vae_name_or_path of None
                /\ calls' = <<"from_file">>
                /\ ret' = Raise("AttributeError")
                /\ loc' = <<>>
                /\ pc' = "done"
           ELSE LET config == ClearVae(data[1])
                    msg == ValidateTraining(config)
                IN  IF Truthy(msg)
                    THEN /\ calls' = <<"from_file", "get_lora_models">>
                         /\ ret' = Rejection(lora_model_name, msg)
                         /\ loc' = [config |-> config, msg |-> msg]
                         /\ pc' = "done"
                    ELSE /\ calls' = <<"from_file">>
                         /\ ret' = NoRet
                         /\ loc' = [config |-> config, msg |-> msg]
                         /\ pc' = "st_checked"
    /\ UNCHANGED mem_record

\* lines 454-459
start_training_unload ==
    /\ pc = "st_checked"
    /\ calls' = UnloadSystemModels(calls)
    /\ loc' = [config |-> loc.config, total_steps |-> loc.config.revision,
               images |-> <<>>, res |-> NoneVal, raised |-> ""]
    /\ pc' = "st_unloaded"
    /\ UNCHANGED <<fn, arg, ret, mem_record>>

\* lines 461-465 and 480-482: train_imagic returns
start_training_imagic ==
    /\ pc = "st_unloaded"
    /\ arg.imagic_only
    /\ \E m \in MemRecords, interrupted \in BOOLEAN :
        /\ mem_record' = m
        /\ loc' = [loc EXCEPT !.total_steps = loc.config.revision,
                              !.res = TrainingResult(interrupted, loc.config.revision)]
    /\ calls' = Append(calls, "train_imagic")
    /\ pc' = "st_trained"
    /\ UNCHANGED <<fn, arg, ret>>

\* lines 466-482: train_dreambooth.main returns
start_training_main ==
    /\ pc = "st_unloaded"
    /\ ~arg.imagic_only
    /\ \E result \in MainResults(loc.config), interrupted \in BOOLEAN,
          save_raises \in BOOLEAN :
        LET saved == result.config.revision # loc.total_steps
            l1 == [loc EXCEPT !.config = result.config, !.images = result.samples]
        IN  /\ mem_record' = result.mem_record
            /\ calls' = IF saved THEN calls \o <<"main", "config.save">>
                        ELSE Append(calls, "main")
            /\ loc' = IF saved /\ save_raises
                      THEN [l1 EXCEPT !.res = TrainingException("save"),
                                      !.raised = "config.save"]
                      ELSE [l1 EXCEPT !.total_steps = result.config.revision,
                                      !.res = TrainingResult(interrupted,
                                                             result.config.revision)]
    /\ pc' = "st_trained"
    /\ UNCHANGED <<fn, arg, ret>>

\* lines 465, 470 and 483-486: the trainer raises
start_training_raise ==
    /\ pc = "st_unloaded"
    /\ LET trainer == IF arg.imagic_only THEN "train_imagic" ELSE "main"
       IN  /\ calls' = Append(calls, trainer)
           /\ loc' = [loc EXCEPT !.res = TrainingException("trainer"),
                                 !.raised = trainer]
    /\ pc' = "st_trained"
    /\ UNCHANGED <<fn, arg, ret, mem_record>>

\* line 493-494
LoraModelName(lora_model_name, config, total_steps) ==
    IF lora_model_name # "" /\ lora_model_name # None
    THEN FStr("{}_{}.pt", <<config.model_name, total_steps>>)
    ELSE StrV(lora_model_name)

\* lines 488-498
start_training_return ==
    /\ pc = "st_trained"
    /\ calls' = Append(ReloadSystemModels(calls), "get_lora_models")
    /\ ret' = Tuple(<<Dropdown(LoraModelName(arg.lora_model_name, loc.config,
                                             loc.total_steps)),
                      IntV(loc.total_steps), IntV(loc.config.epoch),
                      ListV(loc.images), loc.res>>)
    /\ pc' = "done"
    /\ UNCHANGED <<fn, arg, loc, mem_record>>

(***************************************************************************)
(* ui_classifiers                                                          *)
(***************************************************************************)
ClassifierConfigs ==
    {NoConfig} \cup
    {Loaded(c) : c \in
        [attention : {"xformers", "default"},
         mixed_precision : {"no", "fp16"},
         use_cpu : BOOLEAN,
         use_8bit_adam : BOOLEAN,
         concepts_list : TrainConcepts,
         pretrained_model_name_or_path : {"/models/sd", "/models/gone"},
         pretrained_vae_name_or_path : {"", None, "/models/vae", "/models/novae"},
         resolution : {0, 512}]}

\* lines 525-527
CheckCpu(config, msg) ==
    IF config.use_cpu /\ (config.use_8bit_adam \/ config.mixed_precision # "no")
    THEN StrV("CPU Training detected, please disable 8Bit Adam and set mixed precision to 'no' to continue.")
    ELSE msg

\* lines 521-536: the checks of start_training, with the CPU check second
ValidateClassifiers(config) ==
    CheckResolution(config,
        CheckVaePath(config,
            CheckModelPath(config,
                CheckConcepts(config,
                    CheckCpu(config,
                        CheckXformers(config, NoMsg))))))

\* generate_classifiers: -1 when it raises, else the number of class images
ClassifierOutcomes == -1..MaxSamples

Images(n) == [i \in 1..n |-> i]

ui_classifiers(model_name, data, outcome) ==
    IF model_name = "" \/ model_name = None
    THEN Bare(StrV("Create or select a model first."))
    ELSE IF data = NoConfig THEN Raise("AttributeError")
    ELSE LET config == ClearVae(data[1])
             msg == ValidateClassifiers(config)
         IN  IF Truthy(msg) THEN Tuple(<<ListV(<<>>), msg>>)
             ELSE IF outcome < 0
             THEN Tuple(<<ListV(<<>>),
                          FStr("Exception generating concepts: {}", <<outcome>>)>>)
             ELSE Tuple(<<ListV(Images(outcome)),
                          FStr("Generated {} class images.", <<outcome>>)>>)

\* lines 547-550: the routines called on the path taken
ClassifierCalls(model_name, data, outcome) ==
    IF model_name = "" \/ model_name = None THEN <<>>
    ELSE IF data = NoConfig THEN <<"from_file">>
    ELSE IF Truthy(ValidateClassifiers(ClearVae(data[1]))) THEN <<"from_file">>
    ELSE IF outcome < 0
    THEN <<"from_file", "unload_system_models", "generate_classifiers">>
    ELSE <<"from_file", "unload_system_models", "generate_classifiers",
           "reload_system_models">>

(***************************************************************************)
(* load_params                                                             *)
(***************************************************************************)
\* lines 286-356
ui_keys ==
    <<
      "db_adam_beta1", "db_adam_beta2", "db_adam_epsilon", "db_adam_weight_decay",
      "db_attention", "db_center_crop", "db_concepts_path", "db_custom_model_name",
      "db_epoch_pause_frequency", "db_epoch_pause_time",
      "db_gradient_accumulation_steps", "db_gradient_checkpointing",
      "db_gradient_set_to_none", "db_half_model", "db_hflip", "db_learning_rate",
      "db_lora_learning_rate", "db_lora_txt_learning_rate", "db_lora_txt_weight",
      "db_lora_weight", "db_lr_cycles", "db_lr_power", "db_lr_scheduler",
      "db_lr_warmup_steps", "db_max_token_length", "db_max_train_steps",
      "db_mixed_precision", "db_not_cache_latents", "db_num_train_epochs",
      "db_pad_tokens", "db_pretrained_vae_name_or_path", "db_prior_loss_weight",
      "db_resolution", "db_sample_batch_size", "db_save_ckpt_after",
      "db_save_ckpt_cancel", "db_save_ckpt_during", "db_save_embedding_every",
      "db_save_lora_after", "db_save_lora_cancel", "db_save_lora_during",
      "db_save_preview_every", "db_save_state_after", "db_save_state_cancel",
      "db_save_state_during", "db_save_use_global_counts", "db_save_use_epochs",
      "db_scale_lr", "db_shuffle_tags", "db_train_batch_size", "db_train_text_encoder",
      "db_use_8bit_adam", "db_use_concepts", "db_use_ema", "db_use_lora",
      "c1_class_data_dir", "c1_class_guidance_scale", "c1_class_infer_steps",
      "c1_class_negative_prompt", "c1_class_prompt", "c1_class_token",
      "c1_instance_data_dir", "c1_instance_prompt", "c1_instance_token",
      "c1_max_steps", "c1_n_save_sample", "c1_num_class_images", "c1_sample_seed",
      "c1_save_guidance_scale", "c1_save_infer_steps",
      "c1_save_sample_negative_prompt", "c1_save_sample_prompt",
      "c1_save_sample_template", "c2_class_data_dir", "c2_class_guidance_scale",
      "c2_class_infer_steps", "c2_class_negative_prompt", "c2_class_prompt",
      "c2_class_token", "c2_instance_data_dir", "c2_instance_prompt",
      "c2_instance_token", "c2_max_steps", "c2_n_save_sample", "c2_num_class_images",
      "c2_sample_seed", "c2_save_guidance_scale", "c2_save_infer_steps",
      "c2_save_sample_negative_prompt", "c2_save_sample_prompt",
      "c2_save_sample_template", "c3_class_data_dir", "c3_class_guidance_scale",
      "c3_class_infer_steps", "c3_class_negative_prompt", "c3_class_prompt",
      "c3_class_token", "c3_instance_data_dir", "c3_instance_prompt",
      "c3_instance_token", "c3_max_steps", "c3_n_save_sample", "c3_num_class_images",
      "c3_sample_seed", "c3_save_guidance_scale", "c3_save_infer_steps",
      "c3_save_sample_negative_prompt", "c3_save_sample_prompt",
      "c3_save_sample_template", "db_status"
    >>

\* the keys of a Concept, as ui_keys lists them for c1, c2 and c3
ConceptKeys ==
    {
      "class_data_dir", "class_guidance_scale", "class_infer_steps",
      "class_negative_prompt", "class_prompt", "class_token", "instance_data_dir",
      "instance_prompt", "instance_token", "max_steps", "n_save_sample",
      "num_class_images", "sample_seed", "save_guidance_scale", "save_infer_steps",
      "save_sample_negative_prompt", "save_sample_prompt", "save_sample_template"
    }

\* 'epoch' in key, for the keys of ui_keys
HasEpoch(key) ==
    key \in {"db_epoch_pause_frequency", "db_epoch_pause_time", "db_num_train_epochs", "db_save_use_epochs"}

\* the value of one field of a concept; concept 0 is a default Concept()
ConceptField(id, key) == [t |-> "field", v |-> [concept |-> id, key |-> key]]

Concept(id) == [key \in ConceptKeys |-> ConceptField(id, key)]

\* the attributes a config's __dict__ may hold
ConfigAttrs ==
    {"concepts_list", "pretrained_model_name_or_path", "num_train_epochs",
     "learning_rate", "status", "v2"}

ConfigValue(key) == [t |-> "attr", v |-> key]

\* concepts_list: a list of concepts (each named by a number), or None
NoneList == <<-1>>

ConceptLists == {NoneList} \cup SeqsUpTo({1, 2}, MaxConcepts)

ParamConfigs ==
    {NoConfig} \cup
    {Loaded(c) : c \in [keys : SUBSET ConfigAttrs, concepts_list : ConceptLists]}

\* ui_dict[key] = value
Put(dict, key, value) == (key :> value) @@ dict

EmptyDict == <<>>

\* lines 268-270: the key an attribute gets in ui_dict
DbKey(key) ==
    "db_" \o (IF key = "pretrained_model_name_or_path" THEN "model_path" ELSE key)

\* lines 263-271: every attribute but concepts_list goes to ui_dict
PutAttrs(dict, keys) ==
    LET attrs == keys \ {"concepts_list"}
    IN  [k \in {DbKey(key) : key \in attrs} |->
            ConfigValue(CHOOSE key \in attrs : DbKey(key) = k)] @@ dict

\* lines 255-271
ParamsMsg(data) ==
    IF data = NoConfig THEN "Please specify a model to load."
    ELSE IF data[1].keys \ {"concepts_list"} # {} THEN "Loaded config."
    ELSE ""

\* lines 265-266 and 273-276
RECURSIVE PadConcepts(_)
PadConcepts(list) == IF Len(list) < 3 THEN PadConcepts(Append(list, 0)) ELSE list

UiConceptList(data) ==
    LET concepts == IF data # NoConfig /\ "concepts_list" \in data[1].keys
                    THEN data[1].concepts_list ELSE <<>>
    IN  PadConcepts(IF concepts = NoneList THEN <<>> ELSE concepts)

\* f"c{c_idx}_"
CIdx(c_idx) == "c" \o ToString(c_idx) \o "_"

\* lines 282-283
PutConcept(dict, c_idx, ui_concept) ==
    [k \in {CIdx(c_idx) \o key : key \in DOMAIN ui_concept} |->
        ui_concept[CHOOSE key \in DOMAIN ui_concept : CIdx(c_idx) \o key = k]] @@ dict

\* lines 277-284
RECURSIVE PutConcepts(_, _, _)
PutConcepts(dict, list, c_idx) ==
    IF list = <<>> \/ c_idx > 3 THEN dict
    ELSE PutConcepts(PutConcept(dict, c_idx, Concept(Head(list))),
                     Tail(list), c_idx + 1)

\* PutStatus that keeps a db_status already in ui_dict
PutStatus_KeepsAttr(dict, msg) ==
    IF "db_status" \in DOMAIN dict THEN dict ELSE Put(dict, "db_status", StrV(msg))

\* line 285
PutStatus(dict, msg) == Put(dict, "db_status", StrV(msg))

\* lines 252-285
UiDict(data) ==
    PutStatus(PutConcepts(PutAttrs(EmptyDict,
                                   IF data = NoConfig THEN {} ELSE data[1].keys),
                          UiConceptList(data), 1),
              ParamsMsg(data))

\* lines 358-368
OutputFor(key, dict) ==
    IF key \in DOMAIN dict
    THEN IF key = "db_v2" \/ key = "db_has_ema"
         THEN TrueFalse(dict[key].t # "none") ELSE dict[key]
    ELSE IF HasEpoch(key) THEN IntV(0) ELSE NoneVal

load_params(data) ==
    LET dict == UiDict(data)
    IN  [kind |-> "list", val |-> [i \in 1..Len(ui_keys) |-> OutputFor(ui_keys[i], dict)]]

(***************************************************************************)
(* ui_samples                                                              *)
(***************************************************************************)
SampleCounts == -1..MaxSamples
BatchSizes == 0..MaxBatch
Prompts == {None, "a photo"}

SampleConfigs ==
    {NoConfig, Loaded([model_dir |-> "/models/db/model", model_name |-> "model"])}

\* line 209
GeneratedMsg(num_samples) == FStr("Generated {} sample(s).", <<num_samples>>)

\* lines 242-243
SampleException(e) == FStr("Exception generating sample(s): {}", <<e>>)

\* AppendImage without the test of line 239
AppendImage_Unbounded(images, img, num_samples) == Append(images, img)

\* lines 239-240
AppendImage(images, img, num_samples) ==
    IF Len(images) < num_samples THEN Append(images, img) ELSE images

\* lines 238-240
RECURSIVE CollectImages(_, _, _)
CollectImages(images, out_images, num_samples) ==
    IF out_images = <<>> THEN images
    ELSE CollectImages(AppendImage(images, Head(out_images), num_samples),
                       Tail(out_images), num_samples)

\* the images of one round that the test of line 239 leaves out
Surplus(images, out_images, num_samples) ==
    Len(images) + Len(out_images)
        - Len(CollectImages(images, out_images, num_samples))

\* img_builder.generate_images(prompts): at most one image per prompt
GenerateImages(prompts) == {Images(n) : n \in 0..Len(prompts)}

\* lines 205-235: up to the sampling loop
ui_samples_begin ==
    /\ pc = "idle"
    /\ \E model_dir \in ModelDirs, save_sample_prompt \in Prompts,
          num_samples \in SampleCounts, batch_size \in BatchSizes,
          data \in SampleConfigs, builder_raises \in BOOLEAN :
        /\ fn' = "ui_samples"
        /\ arg' = [model_dir |-> model_dir, save_sample_prompt |-> save_sample_prompt,
                   num_samples |-> num_samples, batch_size |-> batch_size,
                   data |-> data]
        /\ IF model_dir = None \/ model_dir = ""
           THEN /\ ret' = Bare(StrV("Please select a model."))
                /\ loc' = <<>>
                /\ calls' = <<>>
                /\ pc' = "done"
           ELSE IF data = NoConfig \/ builder_raises
           THEN \* config.model_dir of None, or ImageBuilder raises
                /\ ret' = NoRet
                /\ loc' = [images |-> <<>>, prompts |-> <<>>,
                           msg |-> SampleException("load"), raised |-> TRUE,
                           surplus |-> 0]
                /\ calls' = <<"from_file">>
                /\ pc' = "us_end"
           ELSE IF save_sample_prompt = None
           THEN /\ ret' = Tuple(<<NoneVal, StrV("Please provide a sample prompt.")>>)
                /\ loc' = <<>>
                /\ calls' = <<"from_file", "ImageBuilder">>
                /\ pc' = "done"
           ELSE /\ ret' = NoRet
                /\ loc' = [images |-> <<>>,
                           prompts |-> [i \in 1..batch_size |-> save_sample_prompt],
                           msg |-> GeneratedMsg(num_samples), raised |-> FALSE,
                           surplus |-> 0]
                /\ calls' = <<"from_file", "ImageBuilder">>
                /\ pc' = "us_loop"
    /\ UNCHANGED mem_record

\* lines 236-240: one round of the while loop
ui_samples_generate ==
    /\ pc = "us_loop"
    /\ Len(loc.images) < arg.num_samples
    /\ \E out_images \in GenerateImages(loc.prompts) :
        loc' = [loc EXCEPT !.images = CollectImages(loc.images, out_images,
                                                    arg.num_samples),
                           !.surplus = @ + Surplus(loc.images, out_images,
                                                   arg.num_samples)]
    /\ UNCHANGED <<pc, fn, arg, ret, calls, mem_record>>

\* lines 237 and 242-245: generate_images raises
ui_samples_raise ==
    /\ pc = "us_loop"
    /\ Len(loc.images) < arg.num_samples
    /\ loc' = [loc EXCEPT !.msg = SampleException("generate"), !.raised = TRUE]
    /\ pc' = "us_end"
    /\ UNCHANGED <<fn, arg, ret, calls, mem_record>>

\* lines 236 and 241: the loop ends
ui_samples_unload ==
    /\ pc = "us_loop"
    /\ ~(Len(loc.images) < arg.num_samples)
    /\ calls' = Append(calls, "img_builder.unload")
    /\ pc' = "us_end"
    /\ UNCHANGED <<fn, arg, loc, ret, mem_record>>

\* lines 246-248
ui_samples_return ==
    /\ pc = "us_end"
    /\ calls' = ReloadSystemModels(calls)
    /\ ret' = Tuple(<<ListV(loc.images), loc.msg>>)
    /\ pc' = "done"
    /\ UNCHANGED <<fn, arg, loc, mem_record>>

(***************************************************************************)
(* The handlers that run in one step, and the specification.               *)
(***************************************************************************)
Init ==
    /\ pc = "idle"
    /\ fn = ""
    /\ arg = <<>>
    /\ loc = <<>>
    /\ ret = NoRet
    /\ calls = <<>>
    /\ mem_record = 0

Call_training_wizard ==
    /\ pc = "idle"
    /\ \E model_dir \in ModelDirs, is_person \in BOOLEAN, data \in WizardConfigs :
        /\ arg' = [model_dir |-> model_dir, is_person |-> is_person, data |-> data]
        /\ ret' = IF is_person THEN training_wizard_person(model_dir, data)
                  ELSE training_wizard(model_dir, FALSE, data)
    /\ fn' = "training_wizard"
    /\ pc' = "done"
    /\ UNCHANGED <<loc, calls, mem_record>>

Call_performance_wizard ==
    /\ pc = "idle"
    /\ \E bf16 \in BOOLEAN, has_xformers \in BOOLEAN, t \in TotalMemory :
        /\ arg' = [bf16 |-> bf16, has_xformers |-> has_xformers, total_memory |-> t]
        /\ ret' = performance_wizard(bf16, has_xformers, t)
    /\ fn' = "performance_wizard"
    /\ pc' = "done"
    /\ UNCHANGED <<loc, calls, mem_record>>

Call_load_model_params ==
    /\ pc = "idle"
    /\ \E model_name \in ModelDirs, data \in ModelConfigs :
        /\ arg' = [model_name |-> model_name, data |-> data]
        /\ ret' = load_model_params(model_name, data)
    /\ fn' = "load_model_params"
    /\ pc' = "done"
    /\ UNCHANGED <<loc, calls, mem_record>>

Call_load_params ==
    /\ pc = "idle"
    /\ \E data \in ParamConfigs :
        /\ arg' = [data |-> data]
        /\ ret' = load_params(data)
    /\ fn' = "load_params"
    /\ pc' = "done"
    /\ UNCHANGED <<loc, calls, mem_record>>

Call_ui_classifiers ==
    /\ pc = "idle"
    /\ \E model_name \in ModelDirs, data \in ClassifierConfigs,
          outcome \in ClassifierOutcomes :
        /\ arg' = [model_name |-> model_name, data |-> data, outcome |-> outcome]
        /\ ret' = ui_classifiers(model_name, data, outcome)
        /\ calls' = ClassifierCalls(model_name, data, outcome)
    /\ fn' = "ui_classifiers"
    /\ pc' = "done"
    /\ UNCHANGED <<loc, mem_record>>

\* the result goes to the UI, which may issue the next request
Return ==
    /\ pc = "done"
    /\ pc' = "idle"
    /\ fn' = ""
    /\ arg' = <<>>
    /\ loc' = <<>>
    /\ ret' = NoRet
    /\ calls' = <<>>
    /\ UNCHANGED mem_record

Next ==
    \/ Call_training_wizard
    \/ Call_performance_wizard
    \/ Call_load_model_params
    \/ Call_load_params
    \/ Call_ui_classifiers
    \/ ui_samples_begin
    \/ ui_samples_generate
    \/ ui_samples_raise
    \/ ui_samples_unload
    \/ ui_samples_return
    \/ start_training_check
    \/ start_training_unload
    \/ start_training_imagic
    \/ start_training_main
    \/ start_training_raise
    \/ start_training_return
    \/ Return

Spec == Init /\ [][Next]_vars

(***************************************************************************)
(* The properties.                                                         *)
(***************************************************************************)
SameVal(a, b) == a.t = b.t /\ a.v = b.v

Returned(name) == pc = "done" /\ fn = name

Count(seq, x) == Cardinality({i \in DOMAIN seq : seq[i] = x})

IndexOf(seq, x) == CHOOSE i \in DOMAIN seq : seq[i] = x

\* C1: training_wizard returns, on every return path, nine elements in the
\* documented order: eight numbers, then the status string last.
C1_FixedShape ==
    (Returned("training_wizard") /\ ret.kind = "tuple") =>
        /\ Len(ret.val) = 9
        /\ \A i \in 1..8 : ret.val[i].t = "int"
        /\ IsStr(ret.val[9])

\* C2: load_model_params returns the seven documented values whether or not
\* the config loads, the outcome message last, and db_v2 and db_has_ema of a
\* loaded config as "True" or "False".
C2_SevenOutputs ==
    Returned("load_model_params") =>
        /\ ret.kind = "tuple"
        /\ Len(ret.val) = 7
        /\ IsStr(ret.val[7])
        /\ arg.data # NoConfig =>
              \A i \in {3, 4} :
                  ret.val[i].t = "str" /\ ret.val[i].v \in {"True", "False"}

\* C3: ui_samples and ui_classifiers return the pair (images, msg) on every
\* return path, never a bare message.
C3_TwoElementResult ==
    ((Returned("ui_samples") \/ Returned("ui_classifiers")) /\ ret.kind # "raise") =>
        /\ ret.kind = "tuple"
        /\ Len(ret.val) = 2
        /\ IsStr(ret.val[2])

\* the preconditions of start_training, stated apart from the code that checks them
XformersFails(c) == c.attention = "xformers" /\ c.mixed_precision = "no"
ConceptsFail(c) == c.concepts_list = <<>>
ModelPathFails(c) == c.pretrained_model_name_or_path \notin ExistingPaths
VaePathFails(c) ==
    /\ c.pretrained_vae_name_or_path \notin {"", None}
    /\ c.pretrained_vae_name_or_path \notin ExistingPaths
ResolutionFails(c) == c.resolution <= 0

AnyCheckFails(c) ==
    \/ XformersFails(c)
    \/ ConceptsFail(c)
    \/ ModelPathFails(c)
    \/ VaePathFails(c)
    \/ ResolutionFails(c)

\* the message of the failing check that comes last in the order xformers,
\* concepts, model path, VAE path, resolution
LastFailing(c) ==
    IF ResolutionFails(c) THEN "Invalid resolution."
    ELSE IF VaePathFails(c) THEN "Invalid Pretrained VAE Path."
    ELSE IF ModelPathFails(c) THEN "Invalid training data directory."
    ELSE IF ConceptsFail(c) THEN "Please configure some concepts."
    ELSE "Using xformers, please set mixed precision to 'fp16' or 'bf16' to continue."

NoModel == arg.model_dir = "" \/ arg.model_dir = None

Refused == NoModel \/ (arg.data # NoConfig /\ AnyCheckFails(arg.data[1]))

Passed == ~NoModel /\ arg.data # NoConfig /\ ~AnyCheckFails(arg.data[1])

Delegated ==
    {"unload_system_models", "train_imagic", "main", "config.save",
     "reload_system_models"}

\* C4: in start_training the models are unloaded and a trainer is called only
\* after every check has passed; with no model or a failing check the handler
\* returns (dropdown, 0, 0, [], msg) with a non-empty msg, has called none of
\* unload_system_models, a trainer, config.save or reload_system_models, and
\* mem_record is what it was at entry.
C4_ValidationPrecedesDelegation ==
    fn = "start_training" =>
        /\ (\E i \in DOMAIN calls : calls[i] \in Delegated) => Passed
        /\ Refused =>
              /\ pc = "done"
              /\ \A i \in DOMAIN calls : calls[i] \notin Delegated
              /\ mem_record = arg.mem_record
              /\ ret.kind = "tuple"
              /\ Len(ret.val) = 5
              /\ ret.val[1].t = "dropdown"
              /\ SameVal(ret.val[1].v, StrV(arg.lora_model_name))
              /\ SameVal(ret.val[2], IntV(0))
              /\ SameVal(ret.val[3], IntV(0))
              /\ SameVal(ret.val[4], ListV(<<>>))
              /\ ret.val[5].t = "str"
              /\ ret.val[5].v # ""

\* a refusal by a failing check, after an earlier request has changed mem_record
C4_Witness ==
    /\ Returned("start_training")
    /\ ~NoModel
    /\ Refused
    /\ mem_record # 0
    /\ ret.val[5].v = "Invalid Pretrained VAE Path."

\* C5: performance_wizard returns gradient_accumulation_steps equal to the
\* train_batch_size it returns.
C5_AccumulationIsBatchSize ==
    Returned("performance_wizard") => SameVal(ret.val[3], ret.val[7])

\* C6: a start_training call that passes validation unloads the models once
\* and reloads them once, in that order, before it returns its five values,
\* whether the trainer finishes or raises; when the trainer raises, the status
\* starts with "Exception training model:" and mem_record is what it was at
\* entry.
C6_UnloadReloadAndNoEscape ==
    (fn = "start_training" /\ Passed) =>
        /\ Count(calls, "reload_system_models") <= Count(calls, "unload_system_models")
        /\ Count(calls, "unload_system_models") <= 1
        /\ pc = "done" =>
              /\ ret.kind = "tuple"
              /\ Len(ret.val) = 5
              /\ Count(calls, "unload_system_models") = 1
              /\ Count(calls, "reload_system_models") = 1
              /\ IndexOf(calls, "unload_system_models")
                    < IndexOf(calls, "reload_system_models")
              /\ loc.raised \in {"train_imagic", "main"} =>
                    /\ ret.val[5].t = "fstr"
                    /\ ret.val[5].v.text = "Exception training model: {}"
                    /\ mem_record = arg.mem_record

\* the trainer raised in a request made after mem_record had been changed
C6_Witness ==
    /\ Returned("start_training")
    /\ Passed
    /\ loc.raised = "main"
    /\ mem_record # 0
    /\ arg.lora_model_name = "lora"

Rejected ==
    /\ pc = "done"
    /\ \A i \in DOMAIN calls : calls[i] # "unload_system_models"

\* C7: start_training rejects a loaded config exactly when one of the five
\* checks fails, reports the message of the failing check that is last in the
\* order xformers, concepts, model path, VAE path, resolution, and turns an
\* empty VAE path into None without rejecting for it.
C7_RejectionAndPriority ==
    (fn = "start_training" /\ ~NoModel /\ arg.data # NoConfig) =>
        LET c == arg.data[1] IN
        /\ Rejected <=> AnyCheckFails(c)
        /\ Rejected => SameVal(ret.val[5], StrV(LastFailing(c)))
        /\ c.pretrained_vae_name_or_path = "" =>
              loc.config.pretrained_vae_name_or_path = None

\* several checks fail at once and the last one is reported
C7_Witness ==
    /\ Returned("start_training")
    /\ ~NoModel
    /\ arg.data # NoConfig
    /\ XformersFails(arg.data[1])
    /\ ConceptsFail(arg.data[1])
    /\ ModelPathFails(arg.data[1])
    /\ ~VaePathFails(arg.data[1])
    /\ arg.data[1].pretrained_vae_name_or_path = ""
    /\ ~ResolutionFails(arg.data[1])
    /\ ret.val[5].v = "Invalid training data directory."

\* C8: ui_samples never holds more than num_samples images, in the loop or on
\* the exception path, and, given a model, a prompt and a generator that does
\* not raise, returns exactly num_samples images with the message
\* "Generated {num_samples} sample(s).".
C8_SampleCount ==
    (fn = "ui_samples" /\ arg.num_samples >= 0) =>
        /\ pc \in {"us_loop", "us_end"} => Len(loc.images) <= arg.num_samples
        /\ (pc = "done" /\ ret.kind = "tuple" /\ ret.val[1].t = "list") =>
              /\ Len(ret.val[1].v) <= arg.num_samples
              /\ (arg.batch_size >= 1 /\ ~loc.raised) =>
                    /\ Len(ret.val[1].v) = arg.num_samples
                    /\ ret.val[2].t = "fstr"
                    /\ ret.val[2].v.text = "Generated {} sample(s)."
                    /\ ret.val[2].v.args = <<arg.num_samples>>

\* the last round overshot and its surplus was left out
C8_Witness ==
    /\ Returned("ui_samples")
    /\ ret.kind = "tuple"
    /\ ret.val[1].t = "list"
    /\ ~loc.raised
    /\ arg.batch_size >= 2
    /\ loc.surplus >= 1
    /\ Len(ret.val[1].v) = arg.num_samples
    /\ arg.num_samples >= 3

\* the class image count that belongs to the i-th concept of concepts_list
C9_Expected(i) ==
    LET concepts == arg.data[1].concepts_list IN
    IF i <= Len(concepts) /\ concepts[i].instance_data_dir \in ExistingPaths
       /\ arg.is_person
    THEN 10 * GetImages(concepts[i].instance_data_dir)
    ELSE 0

\* C9: for a loaded config training_wizard returns, as cI_num_class_images,
\* the count of the I-th concept of concepts_list: ten times its instance
\* images for a person, 0 otherwise, and 0 for a concept that is absent or
\* whose directory does not exist.
C9_ClassImagesPerConcept ==
    (Returned("training_wizard") /\ arg.model_dir = "model" /\ arg.data # NoConfig
        /\ ret.kind = "tuple") =>
        \A i \in 1..3 : SameVal(ret.val[2 * i + 2], IntV(C9_Expected(i)))

\* the concept that fills slot i of load_params: 0 is a default Concept()
C10_Concept(i) ==
    IF arg.data = NoConfig \/ "concepts_list" \notin arg.data[1].keys
       \/ arg.data[1].concepts_list = NoneList
       \/ i > Len(arg.data[1].concepts_list)
    THEN 0
    ELSE arg.data[1].concepts_list[i]

\* the attribute of the config a db_ key shows
C10_Attr(key) ==
    {a \in (IF arg.data = NoConfig THEN {} ELSE arg.data[1].keys) \ {"concepts_list"} :
        key = "db_" \o (IF a = "pretrained_model_name_or_path" THEN "model_path" ELSE a)}

\* the keys of ui_keys that belong to a concept, and where each one stands
C10_ConceptUiKeys == {CIdx(i) \o key : i \in 1..3, key \in ConceptKeys}

C10_Index ==
    [i \in 1..3, key \in ConceptKeys |-> IndexOf(ui_keys, CIdx(i) \o key)]

C10_StatusMessages ==
    {"Please specify a model to load.", "Please check your model config.",
     "Loaded config.", ""}

\* C10: load_params returns one entry per key of ui_keys with the status
\* message last; the c1_, c2_ and c3_ entries are those of the first three
\* concepts in order, a missing concept is a default Concept(), and a key the
\* config lacks is 0 when its name contains "epoch" and None otherwise.
C10_LoadParamsShape ==
    Returned("load_params") =>
        /\ ret.kind = "list"
        /\ Len(ret.val) = Len(ui_keys)
        /\ ui_keys[Len(ui_keys)] = "db_status"
        /\ ret.val[Len(ret.val)].t = "str"
        /\ ret.val[Len(ret.val)].v \in C10_StatusMessages
        /\ arg.data = NoConfig =>
              ret.val[Len(ret.val)].v = "Please specify a model to load."
        /\ \A i \in 1..3 : \A key \in ConceptKeys :
              SameVal(ret.val[C10_Index[i, key]], ConceptField(C10_Concept(i), key))
        /\ \A n \in 1..(Len(ui_keys) - 1) :
              LET key == ui_keys[n] IN
              key \notin C10_ConceptUiKeys =>
                  IF C10_Attr(key) # {}
                  THEN \E a \in C10_Attr(key) : SameVal(ret.val[n], ConfigValue(a))
                  ELSE IF HasEpoch(key) THEN SameVal(ret.val[n], IntV(0))
                  ELSE ret.val[n].t = "none"

\* four concepts, a config attribute named status, and no num_train_epochs
C10_Witness ==
    /\ Returned("load_params")
    /\ arg.data # NoConfig
    /\ {"concepts_list", "status", "learning_rate"} \subseteq arg.data[1].keys
    /\ "num_train_epochs" \notin arg.data[1].keys
    /\ arg.data[1].concepts_list = <<2, 1, 2, 1>>
    /\ ret.val[Len(ret.val)].v = "Loaded config."

====
